---- MODULE Spec2Model ----
(***************************************************************************)
(* The dash_vtk chapter of dash-docs (dash_docs/chapters/dash_vtk/index.py) *)
(* is a documentation page.  What it contains that can be executed are the  *)
(* dash_vtk constructions it shows: literal example snippets and the helper *)
(* function Mesh whose body it prints.  Each construction is a              *)
(* call dash_vtk.<Type>(<keyword properties>, children=[...]); the page     *)
(* holds no code that inspects, validates or rejects a construction.        *)
(*                                                                         *)
(* A constructed node is the record                                        *)
(*     [type |-> <type tag>, props |-> <keyword properties>, children]     *)
(* whose props are exactly the keywords the snippet passes (Python keyword  *)
(* arguments, an unpacked dict included), and whose children are the nodes  *)
(* it nests, in order.  The state is the tree the page built last.          *)
(*                                                                         *)
(* Numbers: the snippets' decimals 0.33 and 0.66 are written in hundredths  *)
(* (33, 66, and 1 as 100) in PolyDataFields only; nothing reads them.       *)
(*                                                                         *)
(* The Download example (download-dataframe-xlxs.py) is a Dash application: *)
(* a button, a Download component and one callback from the button's        *)
(* n_clicks to the Download's data.  Dash runs a callback when one of its   *)
(* inputs changes, and, unless prevent_initial_call is set, once when the   *)
(* page loads.                                                              *)
(***************************************************************************)
EXTENDS Integers, Sequences, FiniteSets, TLC

VARIABLES content,   \* the tree built last: <<>> before any, else <<tree>>
          op,        \* which construction of the page built it
          arg,       \* the argument that construction took: <<>> or <<state>>
          loaded,    \* whether the Download example's page has loaded
          n_clicks,  \* btn_xlxs.n_clicks: 0 until the button is clicked
          data,      \* download-dataframe-xlxs.data: <<>> or <<payload>>
          calls,     \* how many times func has run
          df         \* the module-level data frame

scene == <<content, op, arg>>
download == <<loaded, n_clicks, data, calls, df>>
vars == <<content, op, arg, loaded, n_clicks, data, calls, df>>

---------------------------------------------------------------------------
(* Bounds of the inputs drawn for the helper functions.                    *)

\* longest `values` array drawn for a field
MaxLen == 2
\* largest number drawn as an array element or a point index
MaxVal == 1
\* clicks on the button after which the model stops clicking
MaxClicks == 2

---------------------------------------------------------------------------
(* Nodes.                                                                  *)

\* no keyword property at all: PointData([...]) passes only children
NoProps == [k \in {} |-> <<>>]

Node(type, props, children) ==
    [type |-> type, props |-> props, children |-> children]

\* range(n) of Python: 0, 1, ..., n-1
Range(n) == [i \in 1..n |-> i - 1]

---------------------------------------------------------------------------
(* The property names the page documents for each element.                 *)

ViewProps ==
    {"id", "background", "interactorSettings", "cameraPosition",
     "cameraViewUp", "cameraParallelProjection", "triggerRender",
     "triggerResetCamera", "clickInfo", "hoverInfo"}

GeometryRepresentationProps ==
    {"id", "actor", "property", "mapper", "colorMapPreset",
     "colorDataRange", "showCubeAxes", "cubeAxesStyle"}

ImageDataProps == {"origin", "dimensions", "spacing"}

PolyDataProps ==
    {"points", "verts", "lines", "polys", "strips", "connectivity"}

DataArrayProps ==
    {"location", "name", "values", "numberOfComponents", "type",
     "registration"}

Schema(type) ==
    CASE type = "View" -> ViewProps
      [] type = "GeometryRepresentation" -> GeometryRepresentationProps
      [] type = "ImageData" -> ImageDataProps
      [] type = "PolyData" -> PolyDataProps
      [] type = "DataArray" -> DataArrayProps
      [] OTHER -> {}

---------------------------------------------------------------------------
(* The literal snippets of the page.                                       *)

\* "A concrete example would be a grid of 5 points ... along each axis"
ImageDataGrid ==
    Node("ImageData",
         [dimension |-> <<5, 5, 5>>,
          origin    |-> <<-2, -2, -2>>,
          spacing   |-> <<1, 1, 1>>],
         <<>>)

\* "The example below shows how to attach fields to a dataset": ImageData
ImageDataField ==
    Node("ImageData",
         [dimensions |-> <<5, 5, 5>>,
          origin     |-> <<-2, -2, -2>>,
          spacing    |-> <<1, 1, 1>>],
         << Node("PointData", NoProps,
                 << Node("DataArray",
                         [registration |-> "setScalars",
                          values       |-> Range(5 * 5 * 5)],
                         <<>>) >>) >>)

\* the same example: PolyData with one field on points and one on cells
PolyDataFields ==
    Node("PolyData",
         [points |-> <<0, 0, 0,  1, 0, 0,  0, 1, 0,  1, 1, 0>>,
          lines  |-> <<3, 1, 3, 2>>,
          polys  |-> <<3, 0, 1, 2>>],
         << Node("PointData", NoProps,
                 << Node("DataArray",
                         [name   |-> "onPoints",
                          values |-> <<0, 33, 66, 100>>],
                         <<>>) >>),
            Node("CellData", NoProps,
                 << Node("DataArray",
                         [name   |-> "onCells",
                          values |-> <<0, 1>>],
                         <<>>) >>) >>)

---------------------------------------------------------------------------
(* The helper the page prints: def Mesh, taking keyword arguments.         *)

\* a slip Mesh could make: the field always attached to the points
Mesh_OnPoints(state) ==
    Node("PolyData", state.mesh,
         << Node("PointData", NoProps,
                 << Node("DataArray", state.field, <<>>) >>) >>)

\* PolyData with state.mesh unpacked as its keywords and one child, the
\* container named by state.field.location, holding one DataArray with
\* state.field unpacked as its keywords
Mesh(state) ==
    Node("PolyData", state.mesh,
         << Node(state.field.location, NoProps,
                 << Node("DataArray", state.field, <<>>) >>) >>)

\* content = View([GeometryRepresentation([Mesh(state=mesh_state)])])
GeometryView(state) ==
    Node("View", NoProps,
         << Node("GeometryRepresentation", NoProps, << Mesh(state) >>) >>)

---------------------------------------------------------------------------
(* Inputs of Mesh: the `state` structure the page documents.               *)

\* sequences over 0..MaxVal of length at most n
RECURSIVE SeqsUpTo(_)
SeqsUpTo(n) ==
    IF n = 0 THEN {<<>>}
    ELSE LET shorter == SeqsUpTo(n - 1)
         IN  shorter \cup
             {Append(s, v) : s \in {t \in shorter : Len(t) = n - 1},
                             v \in 0..MaxVal}

\* state.mesh: the properties of PolyData
MeshParts ==
    { [points |-> <<0, 0, 0,  1, 0, 0,  0, 1, 0>>,
       verts |-> <<>>, lines |-> <<>>, polys |-> p, strips |-> <<>>,
       connectivity |-> c]
      : p \in {<<>>, <<3, 0, 1, 2>>},
        c \in {"manual", "points", "triangles", "strips"} }

\* state.field: the properties of DataArray
FieldParts ==
    { [location |-> l, name |-> "field", values |-> v,
       numberOfComponents |-> n, type |-> "Float32Array"]
      : l \in {"PointData", "CellData"},
        v \in SeqsUpTo(MaxLen),
        n \in 1..2 }

MeshStates == { [mesh |-> m, field |-> f] : m \in MeshParts, f \in FieldParts }

---------------------------------------------------------------------------
(* The Download example.                                                   *)

\* df = pd.DataFrame({"a": [1, 2, 3, 4], "b": [2, 1, 5, 6], "c": [...]})
DataFrame ==
    [a |-> <<1, 2, 3, 4>>, b |-> <<2, 1, 5, 6>>, c |-> <<"x", "x", "y", "y">>]

\* df.to_excel(buffer, sheet_name=...): a workbook with one sheet of that
\* name holding the frame's columns
to_excel(frame, sheet_name) ==
    [format |-> "xlsx", sheets |-> << [name |-> sheet_name, cells |-> frame] >>]

\* dcc.send_data_frame(writer, filename, **kwargs): what the writer wrote,
\* under the file name given
send_data_frame(written, filename) ==
    [content |-> written, filename |-> filename, base64 |-> TRUE]

\* a slip: the callback left to run when the page loads
prevent_initial_call_Unset == FALSE

\* app = dash.Dash(prevent_initial_callbacks=True);
\* @app.callback(..., prevent_initial_call=True)
prevent_initial_call == TRUE

\* a slip: the click count worked into the payload's file name
func_Counted(clicks, frame) ==
    send_data_frame(to_excel(frame, "Sheet_name_1"),
                    IF clicks > 1 THEN "mydf_again.xlxs" ELSE "mydf.xlxs")

\* def func(n_clicks): return dcc.send_data_frame(df.to_excel, "mydf.xlxs",
\*                                                sheet_name="Sheet_name_1")
func(clicks, frame) ==
    send_data_frame(to_excel(frame, "Sheet_name_1"), "mydf.xlxs")

---------------------------------------------------------------------------
(* The page as a state machine: one action per construction it shows.      *)

Init ==
    /\ content = <<>>
    /\ op = "none"
    /\ arg = <<>>
    /\ loaded = FALSE
    /\ n_clicks = 0
    /\ data = <<>>
    /\ calls = 0
    /\ df = DataFrame

BuildImageDataGrid ==
    /\ content' = << ImageDataGrid >>
    /\ op' = "ImageDataGrid"
    /\ arg' = <<>>
    /\ UNCHANGED download

BuildImageDataField ==
    /\ content' = << ImageDataField >>
    /\ op' = "ImageDataField"
    /\ arg' = <<>>
    /\ UNCHANGED download

BuildPolyDataFields ==
    /\ content' = << PolyDataFields >>
    /\ op' = "PolyDataFields"
    /\ arg' = <<>>
    /\ UNCHANGED download

BuildGeometryView ==
    \E state \in MeshStates :
        /\ content' = << GeometryView(state) >>
        /\ op' = "GeometryView"
        /\ arg' = << state >>
        /\ UNCHANGED download

\* the browser loads the page: Dash runs the callback once with the initial
\* n_clicks unless prevent_initial_call is set
PageLoad ==
    /\ ~loaded
    /\ loaded' = TRUE
    /\ IF prevent_initial_call
         THEN UNCHANGED <<data, calls>>
         ELSE /\ data' = << func(n_clicks, df) >>
              /\ calls' = calls + 1
    /\ UNCHANGED <<n_clicks, df, scene>>

\* a click on btn_xlxs: n_clicks changes, so Dash runs func and writes what
\* it returns to the Output, download-dataframe-xlxs.data
Click ==
    /\ loaded
    /\ n_clicks < MaxClicks
    /\ n_clicks' = n_clicks + 1
    /\ data' = << func(n_clicks', df) >>
    /\ calls' = calls + 1
    /\ UNCHANGED <<loaded, df, scene>>

Next ==
    \/ BuildImageDataGrid
    \/ BuildImageDataField
    \/ BuildPolyDataFields
    \/ BuildGeometryView
    \/ PageLoad
    \/ Click

Spec == Init /\ [][Next]_vars

---------------------------------------------------------------------------
(* Walking a tree.                                                         *)

\* every node of the tree passes only keywords its element documents
RECURSIVE PropsInSchema(_)
PropsInSchema(n) ==
    /\ DOMAIN n.props \subseteq Schema(n.type)
    /\ \A i \in DOMAIN n.children : PropsInSchema(n.children[i])

---------------------------------------------------------------------------
---------------------------------------------------------------------------
(* C13: in the Download example no payload is produced when the page first *)
(* loads (func is not run for the initial n_clicks); a payload is written  *)
(* to download-dataframe-xlxs.data only in response to a click on btn_xlxs,*)
(* one per click (func has run exactly n_clicks times), and the payload is *)
(* the data frame written by the spreadsheet writer, named "mydf.xlxs".    *)
C13_PayloadPerClick ==
    /\ calls = n_clicks
    /\ n_clicks = 0 => data = <<>>
    /\ n_clicks > 0 =>
          /\ Len(data) = 1
          /\ data[1].filename = "mydf.xlxs"
          /\ data[1].content.format = "xlsx"
          /\ Len(data[1].content.sheets) = 1
          /\ data[1].content.sheets[1].cells = df

\* the page has loaded and the button was clicked twice
C13_Witness ==
    /\ loaded
    /\ n_clicks = 2
    /\ calls = 2
    /\ Len(data) = 1

---------------------------------------------------------------------------
---------------------------------------------------------------------------
(* C21: what the download callback returns does not depend on its n_clicks *)
(* argument or on how often it has fired: after any sequence of clicks the *)
(* payload in download-dataframe-xlxs.data is the one func returns for     *)
(* every click count, with the same file name, the same sheet name option  *)
(* and the data frame's content, and the module-level data frame is still  *)
(* the one the module defined.                                             *)
C21_PayloadIgnoresClicks ==
    /\ df = DataFrame
    /\ Len(data) = 1 =>
          /\ \A c \in 0..MaxClicks : data[1] = func(c, df)
          /\ \A c1, c2 \in 0..MaxClicks :
                /\ func(c1, df).filename = func(c2, df).filename
                /\ func(c1, df).content = func(c2, df).content
          /\ data[1].content.sheets[1].name = "Sheet_name_1"
          /\ data[1].content.sheets[1].cells = DataFrame

\* func has fired more than once and its last payload is in place
C21_Witness ==
    /\ calls >= 2
    /\ n_clicks >= 2
    /\ Len(data) = 1
    /\ data[1].filename = "mydf.xlxs"

====
